---- MODULE Spec2Model ----
(***************************************************************************)
(* Kernel assembly (batch, _serial, _parallel) of asdfghjkl/kernel.py,    *)
(* and the control flow of linear_network_kernel,                          *)
(* linear_network_kernel_indep, kernel_free_cross_entropy and              *)
(* kernel_eigenvalues.                                                     *)
(*                                                                         *)
(* Tensors are nested sequences: a kernel block is block[p][q][c][d]       *)
(* (4-D kernel function) or block[p][q][c] (3-D, class-diagonal kernel     *)
(* function); torch.empty(0) is the empty sequence.  Kernel entries are    *)
(* symbolic inner products of per-sample, per-class gradient rows, coded   *)
(* as positive integers, so that a zero entry is always padding.           *)
(***************************************************************************)
EXTENDS Integers, Sequences, FiniteSets, TLC

\* ------------------------------------------------------------- bounds
MaxWorld == 3
MaxSamples == 4
MaxBatchSize == 2
MaxClasses == 2
MaxIters == 2
MaxTopN == 2
MaxEig == 1
MaxNumel == 2
MaxEta == 2
MaxLocalN == 2
MaxSolveClasses == 3
MaxPowerIters == 3

\* --------------------------------------------------------- vocabulary
MASTER == "master"
ALL == "all"
SPLIT == "split"
SERIAL == "serial"
BOGUS == "bogus"
GatherTypes == {MASTER, ALL, SPLIT}

Min(a, b) == IF a <= b THEN a ELSE b
CeilDiv(a, b) == (a + b - 1) \div b
Range(lo, hi) == [k \in 1..(hi - lo) |-> lo + k - 1]

RECURSIVE Concat(_)
Concat(ss) == IF ss = <<>> THEN <<>> ELSE Head(ss) \o Concat(Tail(ss))

\* the same sequence, its elements evaluated once (a function written
\* [k \in 1..n |-> e] is otherwise evaluated again at every application)
Seq1(s) == s \o <<>>

VARIABLES
    inp,            \* the arguments of batch(): sizes, batch size, world size
    mode,           \* the call in progress: serial, or the gather_type passed
    pc,             \* per rank: start, wait, done, raised
    local_indices,  \* per rank: indices_split[rank]
    local_blocks,   \* per rank: the stacked and padded local blocks
    kcalls,         \* per rank: the (i, j) for which kernel_fn was invoked
    calls,          \* per rank: the collective calls issued, in order
    sent,           \* per rank: the tensor passed to each collective call
    gather_list,    \* per rank: the tensors received as destination
    ret,            \* per mode, per rank: what the call returned
    fn,             \* the entry point called: batch, or one of the functions below
    arg,            \* its arguments
    at,             \* the position reached in its body
    frame,          \* its local variables
    work,           \* forward passes, backward passes and collectives so far
    out,            \* what it returned or raised
    reduced         \* the branch decisions taken from all-reduced values, in order

batch_vars == <<inp, mode, pc, local_indices, local_blocks, kcalls, calls, sent,
                gather_list, ret>>
call_vars == <<fn, arg, at, frame, work, out, reduced>>
vars == <<batch_vars, call_vars>>

Ranks == 0..(inp.P - 1)

\* ------------------------------------------------------ kernel function
\* the row of the Jacobian of sample s, class c (s is a global sample id)
GradId(s, c) == (s - 1) * inp.C + c
NumGradIds == 2 * MaxSamples * MaxClasses + 1

\* einsum('ncp,mdp->nmcd', j1, j2)[n, m, c, d]: an inner product, the same
\* for (n, c), (m, d) exchanged
KVal(s1, c, s2, d) ==
    LET a == GradId(s1, c)
        b == GradId(s2, d)
    IN  IF a <= b THEN a * NumGradIds + b ELSE b * NumGradIds + a

Cell(s1, s2) ==
    IF inp.ndim = 4
    THEN [c \in 1..inp.C |-> [d \in 1..inp.C |-> KVal(s1, c, s2, d)]]
    ELSE [c \in 1..inp.C |-> KVal(s1, c, s2, c)]

\* kernel_fn(model, batch1, batch2); batch2 = None is hasB2 = FALSE
kernel_fn(b1, b2, hasB2) ==
    LET bb == IF hasB2 THEN b2 ELSE b1
    IN  [p \in 1..Len(b1) |-> [q \in 1..Len(bb) |-> Cell(b1[p], bb[q])]]

ZeroCell ==
    IF inp.ndim = 4
    THEN [c \in 1..inp.C |-> [d \in 1..inp.C |-> 0]]
    ELSE [c \in 1..inp.C |-> 0]

\* ------------------------------------------------------------- loaders
\* the samples of the two datasets, as global ids
Dataset1 == Range(1, inp.n1 + 1)
Dataset2 == IF inp.sym THEN Dataset1 ELSE Range(inp.n1 + 1, inp.n1 + inp.n2 + 1)

\* iterating DataLoader(ds, bs): consecutive chunks, the last one short
DataLoader(ds, bs) ==
    Seq1([k \in 1..CeilDiv(Len(ds), bs) |->
             SubSeq(ds, (k - 1) * bs + 1, Min(k * bs, Len(ds)))])

get_subset_loader(ds, bs, batch_indices) ==
    LET n_samples == Len(ds)
        sample_indices(batch_idx) ==
            Range(batch_idx * bs, Min((batch_idx + 1) * bs, n_samples))
        subset_sample_indices ==
            Concat([k \in 1..Len(batch_indices) |-> sample_indices(batch_indices[k])])
        subset == Seq1([k \in 1..Len(subset_sample_indices) |->
                           ds[subset_sample_indices[k] + 1]])
    IN  DataLoader(subset, bs)

n_batches1 == CeilDiv(inp.n1, inp.bs)
n_batches2 == IF inp.sym THEN n_batches1 ELSE CeilDiv(inp.n2, inp.bs)

\* _get_loader's assertion on a raw tensor
Divisible ==
    /\ inp.n1 % inp.bs = 0
    /\ inp.sym \/ inp.n2 % inp.bs = 0
LoaderError == inp.tensor /\ ~Divisible

\* ------------------------------------------------------ index partition
\* np.triu_indices(n), zipped: the pairs i <= j, row by row
triu_indices(n) ==
    Concat([i \in 1..n |-> [k \in 1..(n - i + 1) |-> <<i - 1, i - 1 + k - 1>>]])

Indices ==
    IF inp.sym
    THEN triu_indices(n_batches1)
    ELSE Concat([i \in 1..n_batches1 |-> [j \in 1..n_batches2 |-> <<i - 1, j - 1>>]])

\* a partition that forgets the Len % P elements left over
array_split_r_no_extras(seq, P, r) ==
    LET each == Len(seq) \div P
    IN  SubSeq(seq, r * each + 1, r * each + each)

\* np.array_split(seq, P)[r]: the first Len % P sections hold one more
array_split_r(seq, P, r) ==
    LET each == Len(seq) \div P
        extras == Len(seq) % P
        start == r * each + Min(r, extras)
        size == each + (IF r < extras THEN 1 ELSE 0)
    IN  SubSeq(seq, start + 1, start + size)

array_split(seq, P) == Seq1([k \in 1..P |-> array_split_r(seq, P, k - 1)])

\* ------------------------------------------------------- tensor helpers
NoTensor == <<>>
Ok(t) == [err |-> FALSE, t |-> t]
Err == [err |-> TRUE, t |-> NoTensor]

NonEmpty(ts) == SelectSeq(ts, LAMBDA b : b # <<>>)

\* a mirror that leaves the two class axes as they are
transpose23_skipped(b) == b

\* t.transpose(0, 1) and t.transpose(2, 3) of a block
transpose01(b) == [q \in 1..Len(b[1]) |-> [p \in 1..Len(b) |-> b[p][q]]]
transpose23(b) == [p \in 1..Len(b) |-> [q \in 1..Len(b[p]) |-> transpose01(b[p][q])]]

\* torch.cat(blocks, dim=1): tensors of shape (0,) are skipped, the others
\* must agree in dimension 0; with nothing left the result has shape (0,)
cat_dim1(blocks) ==
    LET bs == NonEmpty(blocks)
    IN  IF bs = <<>> THEN Ok(<<>>)
        ELSE IF \E k \in 1..Len(bs) : Len(bs[k]) # Len(bs[1]) THEN Err
        ELSE Ok([p \in 1..Len(bs[1]) |-> Concat([k \in 1..Len(bs) |-> bs[k][p]])])

\* torch.cat(rows, dim=0): the rows left must agree in dimension 1
cat_dim0(rows) ==
    LET rs == NonEmpty(rows)
    IN  IF rs = <<>> THEN Ok(<<>>)
        ELSE IF \E k \in 1..Len(rs) : Len(rs[k][1]) # Len(rs[1][1]) THEN Err
        ELSE Ok(Concat(rs))

\* torch.stack(blocks): every block of the same shape
BlockShape(b) == <<Len(b), Len(b[1])>>
stack(blocks) ==
    IF blocks = <<>> \/ \E k \in 1..Len(blocks) : BlockShape(blocks[k]) # BlockShape(blocks[1])
    THEN Err
    ELSE Ok(blocks)

zeros_like_block(b) == [p \in 1..Len(b) |-> [q \in 1..Len(b[1]) |-> ZeroCell]]

\* the shape of a stack of blocks passed to a collective
TensorShape(t) == <<Len(t), Len(t[1]), Len(t[1][1]), Len(t[1][1][1])>>

\* ----------------------------------------------------- _parallel, local
indices_split == array_split(Indices, inp.P)
max_n_blocks == Len(indices_split[1])

\* line 138: assert gather_type in [_MASTER, _ALL, _SPLIT]
valid_gather_type == mode \in GatherTypes

\* _parallel without the assertion of line 153
enough_blocks_unchecked == TRUE

\* line 153: assert len(indices) >= world_size
enough_blocks == Len(Indices) >= inp.P

\* lines 156-168: the blocks a rank computes from its two subset loaders
local_pairs(r) ==
    LET idx == indices_split[r + 1]
        subset_loader1 == get_subset_loader(Dataset1, inp.bs, [k \in 1..Len(idx) |-> idx[k][1]])
        subset_loader2 == get_subset_loader(Dataset2, inp.bs, [k \in 1..Len(idx) |-> idx[k][2]])
        m == Min(Len(idx), Min(Len(subset_loader1), Len(subset_loader2)))
    IN  Seq1([k \in 1..m |-> [ij |-> idx[k], batch1 |-> subset_loader1[k],
                              batch2 |-> subset_loader2[k]]])

compute_local_blocks(r) ==
    LET ps == local_pairs(r)
    IN  Seq1([k \in 1..Len(ps) |->
                 kernel_fn(ps[k].batch1, ps[k].batch2,
                           ~(ps[k].ij[1] = ps[k].ij[2] /\ inp.sym))])

\* lines 171-175: match the size of local blocks to the maximum size
pad_local_blocks(r, stacked) ==
    LET n_dummy == max_n_blocks - Len(indices_split[r + 1])
    IN  stacked \o [k \in 1..n_dummy |-> zeros_like_block(stacked[1])]

\* lines 177-191: _construct_block_matrix; is4d is _block.ndim == 4
construct_block_matrix(block_list, is4d) ==
    LET isp == indices_split
        filled(i, j) ==
            {<<q, k>> \in (1..Len(block_list)) \X (1..Len(isp[1])) :
                /\ k <= Len(block_list[q])
                /\ k <= Len(isp[q])
                /\ isp[q][k] = <<i, j>>}
        direct(i, j) ==
            IF filled(i, j) = {} THEN <<>>
            ELSE LET qk == CHOOSE x \in filled(i, j) : TRUE
                 IN  block_list[qk[1]][qk[2]]
        mirror_fails ==
            /\ inp.sym
            /\ \E j \in 0..(n_batches2 - 1) : \E i \in (j + 1)..(n_batches1 - 1) :
                   direct(j, i) = <<>>
        mirrored(i, j) ==
            LET t == transpose01(direct(j, i))
            IN  IF is4d THEN transpose23(t) ELSE t
        blocks(i, j) ==
            IF inp.sym /\ i > j THEN mirrored(i, j) ELSE direct(i, j)
        rows == Seq1([i \in 1..n_batches1 |->
                         cat_dim1([j \in 1..n_batches2 |-> blocks(i - 1, j - 1)])])
    IN  IF mirror_fails THEN Err
        ELSE IF \E i \in 1..n_batches1 : rows[i].err THEN Err
        ELSE cat_dim0([i \in 1..n_batches1 |-> rows[i].t])

\* --------------------------------------------------------------- state
Unset == [kind |-> "unset", t |-> NoTensor]
None == [kind |-> "None", t |-> NoTensor]
Tensor(t) == [kind |-> "tensor", t |-> t]

CallOrder == <<SERIAL, MASTER, ALL, SPLIT, BOGUS>>
CallModes == {CallOrder[k] : k \in 1..Len(CallOrder)}

Inputs ==
    {i \in [P : 1..MaxWorld, sym : BOOLEAN, n1 : 1..MaxSamples, n2 : 1..MaxSamples,
            bs : 1..MaxBatchSize, C : 1..MaxClasses, ndim : {3, 4}, tensor : BOOLEAN] :
        \* x2 = None has no size of its own
        /\ i.sym => i.n2 = i.n1
        \* a DataLoader over a divisible dataset iterates as the wrapped tensor does
        /\ ~i.tensor => (i.n1 % i.bs # 0 \/ i.n2 % i.bs # 0)}

Fresh(v) == [r \in Ranks |-> v]

BATCH == "batch"
NoFrame == <<>>
NoWork == [forward |-> 0, backward |-> 0, collective |-> 0]
Pending == [kind |-> "pending", error |-> "", value |-> <<>>]

Init ==
    /\ fn = BATCH
    /\ arg = NoFrame
    /\ at = "call"
    /\ frame = NoFrame
    /\ work = NoWork
    /\ out = Pending
    /\ reduced = <<>>
    /\ inp \in Inputs
    /\ mode = "idle"
    /\ pc = Fresh("done")
    /\ local_indices = Fresh(<<>>)
    /\ local_blocks = Fresh(NoTensor)
    /\ kcalls = Fresh(<<>>)
    /\ calls = Fresh(<<>>)
    /\ sent = Fresh(<<>>)
    /\ gather_list = Fresh(<<>>)
    /\ ret = [m \in CallModes |-> Fresh(Unset)]

\* the caller: the same call of batch() is made on every rank (on one
\* process when is_distributed is false), each call after the last has ended
NextMode ==
    IF mode = "idle" THEN CallOrder[1]
    ELSE LET k == CHOOSE k \in 1..Len(CallOrder) : CallOrder[k] = mode
         IN  IF k < Len(CallOrder) THEN CallOrder[k + 1] ELSE "idle"

start_call ==
    /\ fn = BATCH
    /\ \A r \in Ranks : pc[r] \in {"done", "raised"}
    /\ NextMode # "idle"
    /\ mode' = NextMode
    /\ pc' = [r \in Ranks |-> IF NextMode = SERIAL /\ r # 0 THEN "done" ELSE "start"]
    /\ local_indices' = Fresh(<<>>)
    /\ local_blocks' = Fresh(NoTensor)
    /\ kcalls' = Fresh(<<>>)
    /\ calls' = Fresh(<<>>)
    /\ sent' = Fresh(<<>>)
    /\ gather_list' = Fresh(<<>>)
    /\ UNCHANGED <<inp, ret>>
    /\ UNCHANGED call_vars

Raise(r) == pc' = [pc EXCEPT ![r] = "raised"]
Return(r, v) ==
    /\ pc' = [pc EXCEPT ![r] = "done"]
    /\ ret' = [ret EXCEPT ![mode][r] = v]

\* ------------------------------------------------------------- _serial
\* lines 86-95: two loaders, every block computed
serial_rows2(bs) ==
    LET loader1 == DataLoader(Dataset1, bs)
        loader2 == DataLoader(Dataset2, bs)
    IN  Seq1([i \in 1..Len(loader1) |->
                 cat_dim1([j \in 1..Len(loader2) |->
                              kernel_fn(loader1[i], loader2[j], TRUE)])])

\* a mirror that copies block (j, i) without transposing it
serial_block_copied(loader1, i, j) ==
    IF i = j THEN kernel_fn(loader1[i], loader1[i], FALSE)
    ELSE IF i > j THEN kernel_fn(loader1[j], loader1[i], TRUE)
    ELSE kernel_fn(loader1[i], loader1[j], TRUE)

\* lines 103-112: block (i, j) of one loader, mirrored below the diagonal
serial_block(loader1, i, j) ==
    IF i = j THEN kernel_fn(loader1[i], loader1[i], FALSE)
    ELSE IF i > j
    THEN LET block == transpose01(kernel_fn(loader1[j], loader1[i], TRUE))
         IN  IF inp.ndim = 4 THEN transpose23(block) ELSE block
    ELSE kernel_fn(loader1[i], loader1[j], TRUE)

\* lines 97-113
serial_rows1(bs) ==
    LET loader1 == DataLoader(Dataset1, bs)
    IN  Seq1([i \in 1..Len(loader1) |->
                 cat_dim1([j \in 1..Len(loader1) |-> serial_block(loader1, i, j)])])

\* lines 83-115
serial_kernel(bs) ==
    LET rows == IF inp.sym THEN serial_rows1(bs) ELSE serial_rows2(bs)
    IN  IF \E i \in 1..Len(rows) : rows[i].err THEN Err
        ELSE cat_dim0([i \in 1..Len(rows) |-> rows[i].t])

\* the (i, j) for which _serial invokes kernel_fn, in order
serial_kcalls ==
    Concat([i \in 1..n_batches1 |->
        Concat([j \in 1..n_batches2 |->
            IF inp.sym /\ i > j THEN <<>> ELSE << <<i - 1, j - 1>> >>])])

\* batch(..., is_distributed=False): _get_loader, then _serial
serial ==
    /\ mode = SERIAL
    /\ pc[0] = "start"
    /\ IF LoaderError
       THEN Raise(0) /\ UNCHANGED <<kcalls, ret>>
       ELSE /\ kcalls' = [kcalls EXCEPT ![0] = serial_kcalls]
            /\ LET kernel == serial_kernel(inp.bs)
               IN  IF kernel.err THEN Raise(0) /\ UNCHANGED ret
                   ELSE Return(0, Tensor(kernel.t))
    /\ UNCHANGED <<inp, mode, local_indices, local_blocks, calls, sent, gather_list>>
    /\ UNCHANGED call_vars

\* ----------------------------------------------------------- _parallel
Gather(dst) == [kind |-> "gather", dst |-> dst]
AllGather == [kind |-> "all_gather", dst |-> -1]

\* np.array_split(range(n_classes), world_size)
classes_split == array_split(Range(0, inp.C), inp.P)

\* a slice that takes the first len(local_classes) classes
class_slice_leading(t, local_classes) ==
    [b \in 1..Len(t) |-> [p \in 1..Len(t[b]) |-> [q \in 1..Len(t[b][p]) |->
        [k \in 1..Len(local_classes) |-> t[b][p][q][k]]]]]

\* local_blocks[:, :, :, local_classes]
class_slice(t, local_classes) ==
    [b \in 1..Len(t) |-> [p \in 1..Len(t[b]) |-> [q \in 1..Len(t[b][p]) |->
        [k \in 1..Len(local_classes) |-> t[b][p][q][local_classes[k] + 1]]]]]

\* blocks[:, :, :, k]
class_blocks(t, k) ==
    [b \in 1..Len(t) |-> [p \in 1..Len(t[b]) |-> [q \in 1..Len(t[b][p]) |->
        t[b][p][q][k + 1]]]]

\* the collective a rank enters first (lines 193-220)
first_call(r, blocks) ==
    IF mode = MASTER THEN [call |-> Gather(0), tensor |-> blocks]
    ELSE IF mode = ALL THEN [call |-> AllGather, tensor |-> blocks]
    ELSE [call |-> Gather(0), tensor |-> class_slice(blocks, classes_split[1])]

\* batch(..., is_distributed=True) on rank r, up to its first collective call
parallel_enter(r) ==
    /\ mode \in CallModes \ {SERIAL}
    /\ pc[r] = "start"
    /\ IF LoaderError \/ ~valid_gather_type \/ ~enough_blocks
       THEN /\ Raise(r)
            /\ UNCHANGED <<local_indices, local_blocks, kcalls, calls, sent>>
       ELSE LET ps == local_pairs(r)
                stacked == stack(compute_local_blocks(r))
            IN  /\ local_indices' = [local_indices EXCEPT ![r] = indices_split[r + 1]]
                /\ kcalls' = [kcalls EXCEPT ![r] = [k \in 1..Len(ps) |-> ps[k].ij]]
                /\ IF stacked.err
                   THEN /\ Raise(r)
                        /\ UNCHANGED <<local_blocks, calls, sent>>
                   ELSE LET padded == pad_local_blocks(r, stacked.t)
                            first == first_call(r, padded)
                        IN  /\ local_blocks' = [local_blocks EXCEPT ![r] = padded]
                            /\ IF mode = SPLIT /\ inp.ndim # 3
                               THEN Raise(r) /\ UNCHANGED <<calls, sent>>
                               ELSE /\ pc' = [pc EXCEPT ![r] = "wait"]
                                    /\ calls' = [calls EXCEPT ![r] = <<first.call>>]
                                    /\ sent' = [sent EXCEPT ![r] = <<first.tensor>>]
    /\ UNCHANGED <<inp, mode, gather_list, ret>>
    /\ UNCHANGED call_vars

\* a collective call returns once every rank has made the same call
Arrived(r) ==
    LET k == Len(calls[r])
    IN  \A q \in Ranks : Len(calls[q]) >= k /\ calls[q][k] = calls[r][k]

ShapesAgree(r) ==
    LET k == Len(calls[r])
    IN  \A q \in Ranks : TensorShape(sent[q][k]) = TensorShape(sent[r][k])

Received(r) == Seq1([q \in 1..inp.P |-> sent[q - 1][Len(calls[r])]])

\* tensors of different shapes in one collective: the call fails
collective_mismatch(r) ==
    /\ mode \in GatherTypes
    /\ pc[r] = "wait"
    /\ Arrived(r)
    /\ ~ShapesAgree(r)
    /\ Raise(r)
    /\ UNCHANGED <<inp, mode, local_indices, local_blocks, kcalls, calls, sent,
                   gather_list, ret>>
    /\ UNCHANGED call_vars

\* lines 193-200
gather_master(r) ==
    /\ mode = MASTER
    /\ pc[r] = "wait"
    /\ Arrived(r)
    /\ ShapesAgree(r)
    /\ IF r = 0
       THEN LET kernel == construct_block_matrix(Received(r), inp.ndim = 4)
            IN  /\ gather_list' = [gather_list EXCEPT ![r] = Received(r)]
                /\ IF kernel.err THEN Raise(r) /\ UNCHANGED ret
                   ELSE Return(r, Tensor(kernel.t))
       ELSE Return(r, None) /\ UNCHANGED gather_list
    /\ UNCHANGED <<inp, mode, local_indices, local_blocks, kcalls, calls, sent>>
    /\ UNCHANGED call_vars

\* lines 202-205
all_gather(r) ==
    /\ mode = ALL
    /\ pc[r] = "wait"
    /\ Arrived(r)
    /\ ShapesAgree(r)
    /\ LET kernel == construct_block_matrix(Received(r), inp.ndim = 4)
       IN  /\ gather_list' = [gather_list EXCEPT ![r] = Received(r)]
           /\ IF kernel.err THEN Raise(r) /\ UNCHANGED ret
              ELSE Return(r, Tensor(kernel.t))
    /\ UNCHANGED <<inp, mode, local_indices, local_blocks, kcalls, calls, sent>>
    /\ UNCHANGED call_vars

\* lines 222-232: the kernels of the classes a rank owns
local_class_kernels(r, gl) ==
    LET local_c == Len(classes_split[r + 1])
        class_kernel(k) ==
            construct_block_matrix([q \in 1..Len(gl) |-> class_blocks(gl[q], k)], FALSE)
    IN  IF \E k \in 0..(local_c - 1) : class_kernel(k).err THEN Err
        ELSE Ok([k \in 1..local_c |-> class_kernel(k - 1).t])

\* lines 212-232: one round of the all-to-all, and the return after the last
gather_split(r) ==
    /\ mode = SPLIT
    /\ pc[r] = "wait"
    /\ Arrived(r)
    /\ ShapesAgree(r)
    /\ LET dst == Len(calls[r]) - 1
           gl == IF r = dst THEN Received(r) ELSE gather_list[r]
       IN  /\ gather_list' = [gather_list EXCEPT ![r] = gl]
           /\ IF dst + 1 < inp.P
              THEN /\ calls' = [calls EXCEPT ![r] = Append(@, Gather(dst + 1))]
                   /\ sent' = [sent EXCEPT ![r] =
                          Append(@, class_slice(local_blocks[r], classes_split[dst + 2]))]
                   /\ UNCHANGED <<pc, ret>>
              ELSE /\ UNCHANGED <<calls, sent>>
                   /\ IF Len(classes_split[r + 1]) > 0
                      THEN LET kernels == local_class_kernels(r, gl)
                           IN  IF kernels.err THEN Raise(r) /\ UNCHANGED ret
                               ELSE Return(r, Tensor(kernels.t))
                      ELSE Return(r, None)
    /\ UNCHANGED <<inp, mode, local_indices, local_blocks, kcalls>>
    /\ UNCHANGED call_vars

Next ==
    \/ start_call
    \/ serial
    \/ \E r \in Ranks : parallel_enter(r)
    \/ \E r \in Ranks : collective_mismatch(r)
    \/ \E r \in Ranks : gather_master(r)
    \/ \E r \in Ranks : all_gather(r)
    \/ \E r \in Ranks : gather_split(r)

Spec == Init /\ [][Next]_vars

\* ===================================================== the other entry points
\* One call of one function, followed on one process.  In a distributed
\* call every rank runs the same body, and every value a branch depends on
\* has been all-reduced, so the ranks take the same path.
LNK == "linear_network_kernel"
LNKI == "linear_network_kernel_indep"
KF == "kernel_free_cross_entropy"
KE == "kernel_eigenvalues"

CLASSIFICATION == "classification"
HETEROSCEDASTIC == "heteroscedastic_regression"
REGRESSION == "regression"
Likelihoods == {CLASSIFICATION, HETEROSCEDASTIC, REGRESSION}

Exception(e) == [kind |-> "raised", error |-> e, value |-> <<>>]
Result(v) == [kind |-> "returned", error |-> "", value |-> v]

Forward(w) == [w EXCEPT !.forward = @ + 1]
Backward(w, k) == [w EXCEPT !.backward = @ + k]
AllReduce(w, k) == [w EXCEPT !.collective = @ + (IF arg.is_distributed THEN k ELSE 0)]

\* a step of the body: the caller's arguments stay as they are
Goto(a, f, w, o) ==
    /\ at' = a
    /\ frame' = f
    /\ work' = w
    /\ out' = o
    /\ UNCHANGED <<fn, arg, reduced>>
    /\ UNCHANGED batch_vars

\* the .grad of the parameters: whether it still holds what the caller
\* left there, and the backward passes accumulated in it
StaleGrad == [stale |-> arg.stale_grad, passes |-> <<>>]

\* a zero_grad that leaves the gradients as they are
zero_grad_skipped(grad) == grad

\* model.zero_grad(); torch.autograd.backward adds to .grad;
\* torch.autograd.grad returns its gradients and leaves .grad alone
zero_grad(grad) == [stale |-> FALSE, passes |-> <<>>]
backward(grad, contribution) == [grad EXCEPT !.passes = Append(@, contribution)]
autograd_grad(grad) == grad

\* dist.all_reduce of the packed gradients: their sum over the ranks
sum_over_ranks(grads) ==
    [stale |-> \E q \in 1..Len(grads) : grads[q].stale,
     passes |-> Concat([q \in 1..Len(grads) |-> grads[q].passes])]

\* -------------------------------------------------- linear_network_kernel
LnkArgs == [likelihood : Likelihoods \cup {BOGUS}, c : 1..MaxClasses]

\* hessian_heteroscedastic_regression reads logits[:, 0] and logits[:, 1]
\* and returns n x 2 x 2
heteroscedastic_shape_ok == arg.c = 2

\* lines 241-250: the forward pass
lnk_forward ==
    /\ fn = LNK
    /\ at = "call"
    /\ Goto("jacobian", [k |-> 0], Forward(work), out)

\* lines 251-267: the backward pass of output k
lnk_backward ==
    /\ fn = LNK
    /\ at = "jacobian"
    /\ frame.k < arg.c
    /\ Goto("jacobian", [frame EXCEPT !.k = @ + 1], Backward(work, 1), out)

\* lines 269-279: the likelihood is looked at after the Jacobian is complete
lnk_likelihood ==
    /\ fn = LNK
    /\ at = "jacobian"
    /\ frame.k = arg.c
    /\ Goto("done", frame, work,
            IF arg.likelihood \notin Likelihoods THEN Exception("ValueError")
            ELSE IF arg.likelihood = HETEROSCEDASTIC /\ ~heteroscedastic_shape_ok
            THEN Exception("shape")
            ELSE Result([logits |-> TRUE, kernel |-> TRUE]))

\* -------------------------------------------- linear_network_kernel_indep
LnkiArgs == [likelihood : Likelihoods \cup {BOGUS}, c : 1..MaxClasses,
             single_output : BOOLEAN, scale_ok : BOOLEAN]

\* line 320: output_range
output_range == IF arg.single_output THEN 1 ELSE arg.c

\* lines 284-294: the scales are attached to the modules
lnki_scale ==
    /\ fn = LNKI
    /\ at = "call"
    /\ IF arg.scale_ok
       THEN Goto("forward", [k |-> 0, scale |-> TRUE, kernel |-> FALSE, kernels |-> 0],
                 work, out)
       ELSE Goto("done", frame, work, Exception("AssertionError"))

\* lines 296-306: _zero_kernel and the forward pass
lnki_forward ==
    /\ fn = LNKI
    /\ at = "forward"
    /\ Goto("likelihood", [frame EXCEPT !.kernel = TRUE], Forward(work), out)

\* lines 307-320: the Hessian of the likelihood, or the assertion
lnki_likelihood ==
    /\ fn = LNKI
    /\ at = "likelihood"
    /\ IF arg.likelihood \notin Likelihoods
       THEN Goto("done", frame, work, Exception("AssertionError"))
       ELSE IF arg.likelihood = HETEROSCEDASTIC /\ arg.c < 2
       THEN Goto("done", frame, work, Exception("shape"))
       ELSE Goto("kernels", frame, work, out)

\* lines 321-339: the backward pass of one output and its kernel
lnki_backward ==
    /\ fn = LNKI
    /\ at = "kernels"
    /\ frame.k < output_range
    /\ IF /\ arg.likelihood = HETEROSCEDASTIC
          /\ ~arg.single_output
          /\ frame.k >= 2
       THEN Goto("done", frame, Backward(work, 1), Exception("shape"))
       ELSE Goto("kernels", [frame EXCEPT !.k = @ + 1, !.kernels = @ + 1],
                 Backward(work, 1), out)

\* lines 340-346: the kernel and the scales are detached again
lnki_return ==
    /\ fn = LNKI
    /\ at = "kernels"
    /\ frame.k = output_range
    /\ Goto("done", [frame EXCEPT !.kernel = FALSE, !.scale = FALSE], work,
            Result([outputs |-> TRUE, kernels |-> frame.kernels]))

\* ------------------------------------------------ empirical_network_kernel
ENK == "empirical_network_kernel"
EnkArgs == [scale_ok : BOOLEAN, lossfunc_raises : BOOLEAN]

\* lines 350-360: the scales are attached to the modules
enk_scale ==
    /\ fn = ENK
    /\ at = "call"
    /\ IF arg.scale_ok
       THEN Goto("forward", [scale |-> TRUE, kernel |-> FALSE], work, out)
       ELSE Goto("done", frame, work, Exception("AssertionError"))

\* lines 362-373: _zero_kernel, the forward pass and the caller's lossfunc
enk_forward ==
    /\ fn = ENK
    /\ at = "forward"
    /\ IF arg.lossfunc_raises
       THEN Goto("done", [frame EXCEPT !.kernel = TRUE], Forward(work),
                 Exception("lossfunc"))
       ELSE Goto("backward", [frame EXCEPT !.kernel = TRUE], Forward(work), out)

\* lines 374-381: the backward pass; kernel and scales are detached again
enk_return ==
    /\ fn = ENK
    /\ at = "backward"
    /\ Goto("done", [frame EXCEPT !.kernel = FALSE, !.scale = FALSE],
            Backward(work, 1), Result([loss |-> TRUE, kernel |-> TRUE]))

\* ----------------------------------------------- _empirical_class_wise_ntk
ECN == "_empirical_class_wise_ntk"
EcnArgs == [c : 1..MaxClasses, forward_raises : BOOLEAN]

\* lines 478-487: gram_precond is attached to every module
ecn_precond ==
    /\ fn = ECN
    /\ at = "call"
    /\ Goto("forward", [k |-> 0, gram_precond |-> TRUE, kernel |-> FALSE], work, out)

\* lines 489-494: _zero_kernel and the forward pass, which the model may refuse
ecn_forward ==
    /\ fn = ECN
    /\ at = "forward"
    /\ IF arg.forward_raises
       THEN Goto("done", [frame EXCEPT !.kernel = TRUE], work, Exception("forward"))
       ELSE Goto("kernels", [frame EXCEPT !.kernel = TRUE], Forward(work), out)

\* lines 495-500: the backward pass of one class and its kernel
ecn_backward ==
    /\ fn = ECN
    /\ at = "kernels"
    /\ frame.k < arg.c
    /\ Goto("kernels", [frame EXCEPT !.k = @ + 1], Backward(work, 1), out)

\* lines 501-506: kernel and gram_precond are detached again
ecn_return ==
    /\ fn = ECN
    /\ at = "kernels"
    /\ frame.k = arg.c
    /\ Goto("done", [frame EXCEPT !.kernel = FALSE, !.gram_precond = FALSE], work,
            Result([kernels |-> frame.k]))

\* ------------------------------------------ natural_gradient_cross_entropy
NG == "natural_gradient_cross_entropy"
NgArgs == [stale_grad : BOOLEAN]

\* lines 567-585: forward pass, the nc x nc matrix and its inverse
ng_forward ==
    /\ fn = NG
    /\ at = "call"
    /\ Goto("solved", [grad |-> StaleGrad], Forward(work), out)

\* lines 587-593: zero_grad, the gradient of the loss, v back-propagated
ng_backward ==
    /\ fn = NG
    /\ at = "solved"
    /\ Goto("done",
            [frame EXCEPT !.grad = backward(autograd_grad(zero_grad(@)),
                                            [rank |-> 0, v |-> "v"])],
            Backward(work, 2), Result(<<>>))

\* -------------------------------- efficient_natural_gradient_cross_entropy
ENG == "efficient_natural_gradient_cross_entropy"
EngArgs == [stale_grad : BOOLEAN, kernels_ndim : {2, 3}]

\* lines 597-599: the assertion, zero_grad and the forward pass
eng_forward ==
    /\ fn = ENG
    /\ at = "call"
    /\ IF arg.kernels_ndim = 3
       THEN Goto("solve", [grad |-> zero_grad(StaleGrad)], Forward(work), out)
       ELSE Goto("done", [grad |-> StaleGrad], work, Exception("AssertionError"))

\* lines 601-608: the two solves, v back-propagated
eng_backward ==
    /\ fn = ENG
    /\ at = "solve"
    /\ Goto("done",
            [frame EXCEPT !.grad = backward(autograd_grad(@), [rank |-> 0, v |-> "v"])],
            Backward(work, 2), Result(<<>>))

\* ---------------------------------------------- kernel_free_cross_entropy
\* max_iters = None is max_iters_is_None; n is the number of local samples
KfArgs ==
    {a \in [n : 1..MaxSamples, c : 1..MaxClasses, is_distributed : BOOLEAN,
            world_size : 1..MaxWorld, max_iters_is_None : BOOLEAN,
            max_iters : 0..MaxIters, stale_grad : BOOLEAN] :
        /\ ~a.is_distributed => a.world_size = 1
        /\ a.max_iters_is_None => a.max_iters = 0}

\* a budget that counts the samples only
default_max_iters_per_sample == arg.n * (IF arg.is_distributed THEN arg.world_size ELSE 1)

\* lines 700-704: n_data * n_classes, n_data multiplied by the world size
default_max_iters ==
    LET n_data == arg.n * (IF arg.is_distributed THEN arg.world_size ELSE 1)
    IN  n_data * arg.c

\* lines 699-721: outputs, gradient of the loss, its norm, x = 0, p = r = grads
kf_init ==
    /\ fn = KF
    /\ at = "init"
    /\ Goto("iterate",
            [max_iters |-> IF arg.max_iters_is_None THEN default_max_iters
                           ELSE arg.max_iters,
             i |-> 0, x |-> 0, err_lt_tol |-> <<>>,
             grad |-> autograd_grad(StaleGrad)],
            AllReduce(Backward(Forward(work), 1), 2), out)

\* lines 722-750: one iteration; err < tol is decided by the data
kf_iterate ==
    /\ fn = KF
    /\ at = "iterate"
    /\ frame.i < frame.max_iters
    /\ \E below \in BOOLEAN :
          Goto(IF below THEN "converged" ELSE "iterate",
               [frame EXCEPT !.i = @ + 1, !.x = @ + 1,
                             !.err_lt_tol = Append(@, below),
                             !.grad = autograd_grad(autograd_grad(@))],
               AllReduce(Backward(work, 2), 3), out)

\* line 722: range(max_iters) is exhausted
kf_exhausted ==
    /\ fn = KF
    /\ at = "iterate"
    /\ frame.i = frame.max_iters
    /\ Goto("maxed-out", frame, work, out)

\* lines 752-762: x is back-propagated, the gradient all-reduced
kf_backward ==
    /\ fn = KF
    /\ at \in {"converged", "maxed-out"}
    /\ Goto("done",
            [frame EXCEPT !.grad = backward(zero_grad(@), [rank |-> 0, v |-> frame.x])],
            AllReduce(Backward(work, 1), 1),
            Result([state |-> at, grad_tensors |-> frame.x]))

\* ----------------------------------------------------- kernel_eigenvalues
KeArgs ==
    {a \in [top_n : 0..MaxTopN, max_iters : 0..MaxIters, eigenvectors : BOOLEAN,
            is_distributed : BOOLEAN, is_master : BOOLEAN,
            gather_type : GatherTypes \cup {BOGUS}, numel : 1..MaxNumel] :
        ~a.is_distributed => a.is_master}

\* the values an eigenvalue estimate takes: equal codes are equal floats
Eigs == 0..MaxEig

\* lines 783-793
ke_enter ==
    /\ fn = KE
    /\ at = "call"
    /\ IF arg.top_n >= 1 /\ arg.max_iters >= 1
       THEN Goto("power",
                 [i |-> 0, j |-> 0, last_eigval |-> <<>>, eigvals |-> <<>>,
                  eigvecs |-> <<>>, gathered |-> 0],
                 Forward(work), out)
       ELSE Goto("done", frame, work, Exception("AssertionError"))

\* lines 834-839: diff < tol; a repeated estimate has diff = 0
diff_lt_tol(eigval) ==
    IF frame.j = 0 THEN {FALSE}
    ELSE IF <<eigval>> = frame.last_eigval THEN {TRUE}
    ELSE BOOLEAN

\* lines 843-844: the pair appended when power iteration i ends.  After
\* the break of line 839 vec is still the tensor normalised at line 814;
\* after the last iteration line 842 has set vec = kernel_vp
accept(eigval, ended_on) ==
    [frame EXCEPT !.i = @ + 1, !.j = 0, !.last_eigval = <<>>,
                  !.eigvals = Append(@, eigval),
                  !.eigvecs = Append(@, [i |-> frame.i, ended_on |-> ended_on,
                                         eigval |-> eigval, holds |-> "local",
                                         tensor |-> IF ended_on = "tolerance"
                                                    THEN "vec" ELSE "kernel_vp"])]

\* lines 802-844: one power iteration of pass i, and the end of the pass
ke_iterate ==
    /\ fn = KE
    /\ at = "power"
    /\ frame.i < arg.top_n
    /\ \E eigval \in Eigs : \E below \in diff_lt_tol(eigval) :
          LET done == AllReduce(Backward(work, 2), Len(frame.eigvecs) + 3)
              f == IF below THEN accept(eigval, "tolerance")
                   ELSE IF frame.j + 1 = arg.max_iters THEN accept(eigval, "budget")
                   ELSE [frame EXCEPT !.j = @ + 1, !.last_eigval = <<eigval>>]
          IN  Goto(IF f.i = arg.top_n THEN "sort" ELSE "power", f, done, out)

\* sorted(zip(eigvals, eigvecs))[::-1]: the orders in which the eigenvalues
\* descend; between equal eigenvalues the eigenvectors decide
sorted_reversed(eigvals) ==
    {p \in Permutations(1..Len(eigvals)) :
        \A k \in 1..(Len(eigvals) - 1) : eigvals[p[k]] >= eigvals[p[k + 1]]}

\* the comparison of two tuples with equal eigenvalues goes on to the
\* eigenvectors, and the truth value of a tensor of several elements raises
ambiguous_comparison ==
    /\ arg.numel > 1
    /\ \E a, b \in 1..Len(frame.eigvals) : a # b /\ frame.eigvals[a] = frame.eigvals[b]

\* line 847
ke_sort ==
    /\ fn = KE
    /\ at = "sort"
    /\ IF ambiguous_comparison
       THEN Goto("done", frame, work, Exception("RuntimeError"))
       ELSE \E p \in sorted_reversed(frame.eigvals) :
               Goto("sorted",
                    [frame EXCEPT !.eigvals = [k \in 1..Len(p) |-> frame.eigvals[p[k]]],
                                  !.eigvecs = [k \in 1..Len(p) |-> frame.eigvecs[p[k]]]],
                    work, out)

to_gather == arg.eigenvectors /\ arg.is_distributed

\* lines 853-864: the gather of one eigenvector
ke_gather ==
    /\ fn = KE
    /\ at = "sorted"
    /\ to_gather
    /\ frame.gathered < Len(frame.eigvecs)
    /\ IF arg.gather_type \in {MASTER, ALL}
       THEN LET holds == IF arg.gather_type = MASTER /\ ~arg.is_master
                         THEN "zeros" ELSE "global"
            IN  Goto("sorted",
                     [frame EXCEPT !.gathered = @ + 1,
                                   !.eigvecs[frame.gathered + 1].holds = holds],
                     AllReduce(work, 1), out)
       ELSE Goto("done", frame, work, Exception("ValueError"))

\* lines 865-867
ke_return ==
    /\ fn = KE
    /\ at = "sorted"
    /\ to_gather => frame.gathered = Len(frame.eigvecs)
    /\ Goto("done", frame, work,
            Result(IF arg.eigenvectors
                   THEN [eigvals |-> frame.eigvals, eigvecs |-> frame.eigvecs]
                   ELSE [eigvals |-> frame.eigvals, eigvecs |-> <<>>]))

\* ------------------------------------- hessian_heteroscedastic_regression
HHR == "hessian_heteroscedastic_regression"

\* floats that are ratios of small integers, kept exact
Abs(x) == IF x < 0 THEN -x ELSE x

RECURSIVE Gcd(_, _)
Gcd(a, b) ==
    IF b = 0 THEN a
    ELSE CHOOSE g \in {Gcd(p[2], p[1] % p[2]) : p \in {<<a, b>>}} : TRUE

\* n / d in lowest terms with a positive denominator
Rat(n, d) ==
    CHOOSE q \in {[num |-> ((IF p[2] < 0 THEN -1 ELSE 1) * p[1])
                               \div Gcd(Abs(p[1]), Abs(p[2])),
                    den |-> ((IF p[2] < 0 THEN -1 ELSE 1) * p[2])
                               \div Gcd(Abs(p[1]), Abs(p[2]))]
                       : p \in {<<n, d>>}} : TRUE
RNeg(a) == CHOOSE q \in {Rat(-x.num, x.den) : x \in {a}} : TRUE
RSub(a, b) ==
    CHOOSE q \in {Rat(x[1].num * x[2].den - x[2].num * x[1].den,
                      x[1].den * x[2].den) : x \in {<<a, b>>}} : TRUE
RMul(a, b) ==
    CHOOSE q \in {Rat(x[1].num * x[2].num, x[1].den * x[2].den)
                       : x \in {<<a, b>>}} : TRUE
RDiv(a, b) ==
    CHOOSE q \in {Rat(x[1].num * x[2].den, x[1].den * x[2].num)
                       : x \in {<<a, b>>}} : TRUE
Half == Rat(1, 2)

\* one row of logits: eta_2 = -1 / (2 sigma^2) is never 0
HhrArgs == [eta_1 : (-MaxEta)..MaxEta, eta_2 : ((-MaxEta)..MaxEta) \ {0}]

\* a Hessian whose mixed entries have the opposite sign
hessian_mixed_negated(eta_1, eta_2) ==
    <<<<RDiv(RNeg(Half), eta_2),
        RNeg(RDiv(RMul(Half, eta_1), RMul(eta_2, eta_2)))>>,
      <<RNeg(RDiv(RMul(Half, eta_1), RMul(eta_2, eta_2))),
        RSub(RDiv(Half, RMul(eta_2, eta_2)),
             RDiv(RMul(Half, RMul(eta_1, eta_1)),
                  RMul(eta_2, RMul(eta_2, eta_2))))>>>>

\* lines 540-545: L[0][0], L[0][1] = L[1][0], L[1][1] of one row
hessian_heteroscedastic_regression(eta_1, eta_2) ==
    <<<<RDiv(RNeg(Half), eta_2),
        RDiv(RMul(Half, eta_1), RMul(eta_2, eta_2))>>,
      <<RDiv(RMul(Half, eta_1), RMul(eta_2, eta_2)),
        RSub(RDiv(Half, RMul(eta_2, eta_2)),
             RDiv(RMul(Half, RMul(eta_1, eta_1)),
                  RMul(eta_2, RMul(eta_2, eta_2))))>>>>

hhr_return ==
    /\ fn = HHR
    /\ at = "call"
    /\ \E L \in {hessian_heteroscedastic_regression(Rat(arg.eta_1, 1),
                                                      Rat(arg.eta_2, 1))} :
           Goto("done", frame, work, Result(L))

\* ================================== distributed calls, followed on every rank
\* The same call is made on every rank of a world of inp.P processes, each
\* rank holding local_n samples.  pc, calls, sent and gather_list are the
\* ranks' positions, collective calls, tensors passed and tensors received;
\* frame holds each rank's local variables.
AllReduceCall == [kind |-> "all_reduce", dst |-> -1]

RankStep(r, p, f, cs, ss, gl) ==
    /\ pc' = [pc EXCEPT ![r] = p]
    /\ frame' = [frame EXCEPT ![r] = f]
    /\ calls' = [calls EXCEPT ![r] = cs]
    /\ sent' = [sent EXCEPT ![r] = ss]
    /\ gather_list' = [gather_list EXCEPT ![r] = gl]
    /\ UNCHANGED <<inp, mode, local_indices, local_blocks, kcalls, ret>>
    /\ UNCHANGED <<fn, arg, at, work, out>>

\* ---------------------- parallel_efficient_natural_gradient_cross_entropy
PENG == "parallel_efficient_natural_gradient_cross_entropy"
PengArgs == [world_size : 1..MaxWorld, local_n : 1..MaxLocalN,
             c : 1..MaxSolveClasses, kernels_ok : BOOLEAN, stale_grad : BOOLEAN]

\* the entries of v: a second-order gradient of the logits, the value
\* solved from a kernel and a right-hand side, a zero
Grad(g, k) == [sample |-> g, class |-> k]
Solved(kernel, rhs, g) == [kernel |-> kernel, rhs |-> rhs, at |-> g]
ZeroEntry == [sample |-> -1, class |-> -1]

\* line 618: v of rank r, local_n x c; its samples are r * local_n + s
second_order_grad(r) ==
    Seq1([s \in 1..arg.local_n |->
             [k \in 1..arg.c |-> Grad(r * arg.local_n + s - 1, k - 1)]])

\* line 622
peng_classes_split == array_split(Range(0, arg.c), arg.world_size)
has_local_classes(r) == Len(peng_classes_split[r + 1]) > 0
peng_max_n_classes == Len(peng_classes_split[1])

\* lines 624-626: the loop gathers to the ranks before the first empty shard
n_owners == Cardinality({q \in Ranks : has_local_classes(q)})

\* line 627: v[:, local_classes]
select_columns(v, local_classes) ==
    Seq1([s \in 1..Len(v) |->
             [k \in 1..Len(local_classes) |-> v[s][local_classes[k] + 1]]])

\* lines 641-643: v = cat(gather_list).T, solved against the kernel of each
\* class of the rank's shard
cholesky_solve(r, gl) ==
    LET v == transpose01(Concat(gl))
    IN  Seq1([k \in 1..Len(v) |->
                 [g \in 1..Len(v[k]) |->
                     Solved(peng_classes_split[r + 1][k], v[k], g - 1)]])

\* lines 651-658: the columns of rank dst, padded to max_n_classes rows
to_data_tensor(r, v, dst) ==
    IF has_local_classes(r)
    THEN LET tensor == [k \in 1..Len(v) |->
                           SubSeq(v[k], dst * arg.local_n + 1, (dst + 1) * arg.local_n)]
             local_c == Len(peng_classes_split[r + 1])
         IN  Seq1(tensor \o [k \in 1..(peng_max_n_classes - local_c) |->
                                 [s \in 1..arg.local_n |-> ZeroEntry]])
    ELSE Seq1([k \in 1..peng_max_n_classes |-> [s \in 1..arg.local_n |-> ZeroEntry]])

\* a slice that keeps the padding rows
leading_rows_padded(tensor, local_c) == tensor

\* line 670: tensor[:local_c]
leading_rows(tensor, local_c) == SubSeq(tensor, 1, local_c)

\* lines 665-672: the rows of the shards before the first empty one
assemble(gl) ==
    transpose01(Concat([q \in 1..n_owners |->
                           leading_rows(gl[q], Len(peng_classes_split[q]))]))

\* lines 612-632: forward pass, v, and the first gather of the all-to-all
peng_forward(r) ==
    /\ fn = PENG
    /\ UNCHANGED reduced
    /\ pc[r] = "start"
    /\ LET v == second_order_grad(r)
       IN  RankStep(r, "wait",
                    [phase |-> "to_class", v |-> v, solved |-> <<>>, grad |-> StaleGrad],
                    <<Gather(0)>>, <<select_columns(v, peng_classes_split[1])>>,
                    gather_list[r])

\* lines 624-658: a gather of the first all-to-all returns; after the
\* last the rank solves its classes and enters the second all-to-all
peng_to_class(r) ==
    /\ fn = PENG
    /\ UNCHANGED reduced
    /\ pc[r] = "wait"
    /\ frame[r].phase = "to_class"
    /\ Arrived(r)
    /\ LET dst == Len(calls[r]) - 1
           gl == IF r = dst THEN Received(r) ELSE gather_list[r]
       IN  IF dst + 1 < arg.world_size /\ has_local_classes(dst + 1)
           THEN RankStep(r, "wait", frame[r], Append(calls[r], Gather(dst + 1)),
                         Append(sent[r],
                                select_columns(frame[r].v, peng_classes_split[dst + 2])),
                         gl)
           ELSE IF has_local_classes(r) /\ ~arg.kernels_ok
           THEN RankStep(r, "raised", frame[r], calls[r], sent[r], gl)
           ELSE LET v == IF has_local_classes(r) THEN cholesky_solve(r, gl) ELSE <<>>
                IN  RankStep(r, "wait",
                             [frame[r] EXCEPT !.phase = "to_data", !.solved = v],
                             Append(calls[r], Gather(0)),
                             Append(sent[r], to_data_tensor(r, v, 0)), <<>>)

\* lines 650-681: a gather of the second all-to-all returns; after the
\* last the rank assembles v, back-propagates it and enters the all-reduce
peng_to_data(r) ==
    /\ fn = PENG
    /\ UNCHANGED reduced
    /\ pc[r] = "wait"
    /\ frame[r].phase = "to_data"
    /\ Arrived(r)
    /\ LET dst == Len(calls[r]) - n_owners - 1
           gl == IF r = dst THEN Received(r) ELSE gather_list[r]
       IN  IF dst + 1 < arg.world_size
           THEN RankStep(r, "wait", frame[r], Append(calls[r], Gather(dst + 1)),
                         Append(sent[r], to_data_tensor(r, frame[r].solved, dst + 1)),
                         gl)
           ELSE LET v == assemble(gl)
                    grad == backward(zero_grad(frame[r].grad), [rank |-> r, v |-> v])
                IN  RankStep(r, "wait",
                             [frame[r] EXCEPT !.phase = "reduce", !.v = v, !.grad = grad],
                             Append(calls[r], AllReduceCall), Append(sent[r], grad), gl)

\* lines 681-688: the summed gradient is copied into the parameters
peng_all_reduce(r) ==
    /\ fn = PENG
    /\ UNCHANGED reduced
    /\ pc[r] = "wait"
    /\ frame[r].phase = "reduce"
    /\ Arrived(r)
    /\ RankStep(r, "done",
                [frame[r] EXCEPT !.phase = "returned", !.grad = sum_over_ranks(Received(r))],
                calls[r], sent[r], gather_list[r])

\* ------------------------------------------- values every rank agrees on
\* a decision each rank takes from its own value
decided_locally(d) == BOOLEAN

\* the d-th branch decision on an all-reduced value: drawn when the first
\* rank takes it, the same on every rank after
all_reduced(d) == IF d <= Len(reduced) THEN {reduced[d]} ELSE BOOLEAN
Decide(d, b) == reduced' = IF d <= Len(reduced) THEN reduced ELSE Append(reduced, b)

\* ------------------------- kernel_free_cross_entropy(is_distributed=True)
KFR == "kernel_free_cross_entropy on every rank"
KfrArgs ==
    {a \in [world_size : 1..MaxWorld, n : 1..MaxLocalN, c : 1..MaxClasses,
            is_distributed : {TRUE}, max_iters_is_None : BOOLEAN,
            max_iters : 0..MaxIters, stale_grad : {TRUE}] :
        a.max_iters_is_None => a.max_iters = 0}

\* a tensor passed to all_reduce that is not the packed gradient: it adds
\* no backward pass to what it is summed into
Reduced(name) == [stale |-> FALSE, passes |-> <<>>, name |-> name]

kfr_max_iters == IF arg.max_iters_is_None THEN default_max_iters ELSE arg.max_iters

\* lines 752-757: x is back-propagated and the rank enters the all-reduce
kfr_backward(r, f) ==
    LET grad == backward(zero_grad(f.grad), [rank |-> r, v |-> f.i])
    IN  RankStep(r, "wait", [f EXCEPT !.phase = "reduce", !.grad = grad],
                 Append(calls[r], AllReduceCall), Append(sent[r], grad), gather_list[r])

\* lines 723-741: g, m and n of one iteration are all-reduced
kfr_residual(r, f) ==
    RankStep(r, "wait", [f EXCEPT !.phase = "iterate"],
             calls[r] \o <<AllReduceCall, AllReduceCall, AllReduceCall>>,
             sent[r] \o <<Reduced("g"), Reduced("m"), Reduced("n")>>, gather_list[r])

\* lines 699-721: gg and last_n are all-reduced
kfr_init(r) ==
    /\ fn = KFR
    /\ pc[r] = "start"
    /\ RankStep(r, "wait", [phase |-> "init", i |-> 0, grad |-> autograd_grad(StaleGrad)],
                <<AllReduceCall, AllReduceCall>>, <<Reduced("gg"), Reduced("last_n")>>,
                gather_list[r])
    /\ UNCHANGED reduced

\* line 722: the loop is entered, or skipped when max_iters is 0
kfr_enter_loop(r) ==
    /\ fn = KFR
    /\ pc[r] = "wait"
    /\ frame[r].phase = "init"
    /\ Arrived(r)
    /\ IF kfr_max_iters = 0 THEN kfr_backward(r, frame[r]) ELSE kfr_residual(r, frame[r])
    /\ UNCHANGED reduced

\* lines 743-750: err < tol on the all-reduced n ends the loop, and so does
\* the last iteration
kfr_iterate(r) ==
    /\ fn = KFR
    /\ pc[r] = "wait"
    /\ frame[r].phase = "iterate"
    /\ Arrived(r)
    /\ \E below \in all_reduced(frame[r].i + 1) :
          LET f == [frame[r] EXCEPT !.i = @ + 1, !.grad = autograd_grad(autograd_grad(@))]
          IN  /\ Decide(frame[r].i + 1, below)
              /\ IF below \/ f.i = kfr_max_iters
                 THEN kfr_backward(r, f)
                 ELSE kfr_residual(r, f)

\* lines 757-762: the summed gradient is copied into the parameters
kfr_all_reduce(r) ==
    /\ fn = KFR
    /\ pc[r] = "wait"
    /\ frame[r].phase = "reduce"
    /\ Arrived(r)
    /\ RankStep(r, "done",
                [frame[r] EXCEPT !.phase = "returned", !.grad = sum_over_ranks(Received(r))],
                calls[r], sent[r], gather_list[r])
    /\ UNCHANGED reduced

\* -------------------------------- kernel_eigenvalues(is_distributed=True)
KER == "kernel_eigenvalues on every rank"
KerArgs == [world_size : 1..MaxWorld, top_n : 0..MaxTopN, max_iters : 0..MaxPowerIters,
            eigenvectors : BOOLEAN, gather_type : GatherTypes]

\* lines 804-832: one alpha per accepted eigenvector, vv, g and eigval
ker_power_iteration(r, f) ==
    RankStep(r, "wait", [f EXCEPT !.phase = "power"],
             calls[r] \o [k \in 1..(f.i + 3) |-> AllReduceCall],
             sent[r] \o [k \in 1..f.i |-> "alpha"] \o <<"vv", "g", "eigval">>,
             gather_list[r])

\* lines 853-863: the gather of one eigenvector
ker_gather_call(r, f) ==
    IF arg.gather_type \in {MASTER, ALL}
    THEN RankStep(r, "wait", [f EXCEPT !.phase = "gather"],
                  Append(calls[r], IF arg.gather_type = MASTER THEN Gather(0) ELSE AllGather),
                  Append(sent[r], "v"), gather_list[r])
    ELSE RankStep(r, "raised", f, calls[r], sent[r], gather_list[r])

\* lines 783-802
ker_enter(r) ==
    /\ fn = KER
    /\ pc[r] = "start"
    /\ IF arg.top_n >= 1 /\ arg.max_iters >= 1
       THEN ker_power_iteration(r, [phase |-> "power", i |-> 0, j |-> 0, d |-> 0,
                                    gathered |-> 0])
       ELSE RankStep(r, "raised", frame[r], calls[r], sent[r], gather_list[r])
    /\ UNCHANGED reduced

\* lines 834-844: diff < tol on the all-reduced eigval ends the pass, and
\* so does the last iteration
ker_power(r) ==
    /\ fn = KER
    /\ pc[r] = "wait"
    /\ frame[r].phase = "power"
    /\ Arrived(r)
    /\ \E below \in (IF frame[r].j = 0 THEN {FALSE} ELSE all_reduced(frame[r].d + 1)) :
          LET f == IF frame[r].j = 0 THEN frame[r] ELSE [frame[r] EXCEPT !.d = @ + 1]
              ends == below \/ f.j + 1 = arg.max_iters
          IN  /\ IF frame[r].j = 0 THEN UNCHANGED reduced
                 ELSE Decide(frame[r].d + 1, below)
              /\ IF ~ends THEN ker_power_iteration(r, [f EXCEPT !.j = @ + 1])
                 ELSE IF f.i + 1 < arg.top_n
                 THEN ker_power_iteration(r, [f EXCEPT !.i = @ + 1, !.j = 0])
                 ELSE RankStep(r, "wait",
                               [f EXCEPT !.i = @ + 1, !.j = 0, !.phase = "sort"],
                               calls[r], sent[r], gather_list[r])

\* lines 847-867: the sort compares all-reduced eigenvalues, and raises on
\* an ambiguous comparison; then the first gather, or the return
ker_sort(r) ==
    /\ fn = KER
    /\ pc[r] = "wait"
    /\ frame[r].phase = "sort"
    /\ \E ambiguous \in (IF arg.top_n >= 2 THEN all_reduced(frame[r].d + 1) ELSE {FALSE}) :
          /\ IF arg.top_n >= 2 THEN Decide(frame[r].d + 1, ambiguous) ELSE UNCHANGED reduced
          /\ IF ambiguous
             THEN RankStep(r, "raised", frame[r], calls[r], sent[r], gather_list[r])
             ELSE IF arg.eigenvectors
             THEN ker_gather_call(r, frame[r])
             ELSE RankStep(r, "done", [frame[r] EXCEPT !.phase = "returned"],
                           calls[r], sent[r], gather_list[r])

\* lines 853-865: a gather returns; the next eigenvector, or the return
ker_gather(r) ==
    /\ fn = KER
    /\ pc[r] = "wait"
    /\ frame[r].phase = "gather"
    /\ Arrived(r)
    /\ LET f == [frame[r] EXCEPT !.gathered = @ + 1]
       IN  IF f.gathered < arg.top_n
           THEN ker_gather_call(r, f)
           ELSE RankStep(r, "done", [f EXCEPT !.phase = "returned"],
                         calls[r], sent[r], gather_list[r])
    /\ UNCHANGED reduced

\* ---------------------------------------------------------- one call
Calls ==
    {[fn |-> LNK, arg |-> a] : a \in LnkArgs}
    \cup {[fn |-> LNKI, arg |-> a] : a \in LnkiArgs}
    \cup {[fn |-> KF, arg |-> a] : a \in KfArgs}
    \cup {[fn |-> KE, arg |-> a] : a \in KeArgs}
    \cup {[fn |-> HHR, arg |-> a] : a \in HhrArgs}
    \cup {[fn |-> ENK, arg |-> a] : a \in EnkArgs}
    \cup {[fn |-> ECN, arg |-> a] : a \in EcnArgs}
    \cup {[fn |-> NG, arg |-> a] : a \in NgArgs}
    \cup {[fn |-> ENG, arg |-> a] : a \in EngArgs}

\* batch() is not called here: one process, nothing in progress
NoBatch == [P |-> 1, sym |-> TRUE, n1 |-> 1, n2 |-> 1, bs |-> 1, C |-> 1,
            ndim |-> 3, tensor |-> TRUE]

InitCalls ==
    /\ \E call \in Calls : fn = call.fn /\ arg = call.arg
    /\ at = IF fn = KF THEN "init" ELSE "call"
    /\ frame = NoFrame
    /\ work = NoWork
    /\ out = Pending
    /\ reduced = <<>>
    /\ inp = NoBatch
    /\ mode = "idle"
    /\ pc = Fresh("done")
    /\ local_indices = Fresh(<<>>)
    /\ local_blocks = Fresh(NoTensor)
    /\ kcalls = Fresh(<<>>)
    /\ calls = Fresh(<<>>)
    /\ sent = Fresh(<<>>)
    /\ gather_list = Fresh(<<>>)
    /\ ret = [m \in CallModes |-> Fresh(Unset)]

NextCalls ==
    \/ lnk_forward
    \/ lnk_backward
    \/ lnk_likelihood
    \/ lnki_scale
    \/ lnki_forward
    \/ lnki_likelihood
    \/ lnki_backward
    \/ lnki_return
    \/ kf_init
    \/ kf_iterate
    \/ kf_exhausted
    \/ kf_backward
    \/ ke_enter
    \/ ke_iterate
    \/ ke_sort
    \/ ke_gather
    \/ ke_return
    \/ hhr_return
    \/ enk_scale
    \/ enk_forward
    \/ enk_return
    \/ ecn_precond
    \/ ecn_forward
    \/ ecn_backward
    \/ ecn_return
    \/ ng_forward
    \/ ng_backward
    \/ eng_forward
    \/ eng_backward

SpecCalls == InitCalls /\ [][NextCalls]_vars

\* a call that can take a step takes it
FairSpecCalls == SpecCalls /\ WF_vars(NextCalls)

\* ------------------------------------------- one call, made on every rank
OnEveryRank == {PENG, KFR, KER}

RankCalls ==
    {[fn |-> PENG, arg |-> a] : a \in PengArgs}
    \cup {[fn |-> KFR, arg |-> a] : a \in KfrArgs}
    \cup {[fn |-> KER, arg |-> a] : a \in KerArgs}

InitRanks ==
    /\ \E call \in RankCalls : fn = call.fn /\ arg = call.arg
    /\ inp = [NoBatch EXCEPT !.P = arg.world_size]
    /\ at = "ranks"
    /\ frame = Fresh(NoFrame)
    /\ work = NoWork
    /\ out = Pending
    /\ reduced = <<>>
    /\ mode = "idle"
    /\ pc = Fresh("start")
    /\ local_indices = Fresh(<<>>)
    /\ local_blocks = Fresh(NoTensor)
    /\ kcalls = Fresh(<<>>)
    /\ calls = Fresh(<<>>)
    /\ sent = Fresh(<<>>)
    /\ gather_list = Fresh(<<>>)
    /\ ret = [m \in CallModes |-> Fresh(Unset)]

NextRanks ==
    \/ \E r \in Ranks : peng_forward(r)
    \/ \E r \in Ranks : peng_to_class(r)
    \/ \E r \in Ranks : peng_to_data(r)
    \/ \E r \in Ranks : peng_all_reduce(r)
    \/ \E r \in Ranks : kfr_init(r)
    \/ \E r \in Ranks : kfr_enter_loop(r)
    \/ \E r \in Ranks : kfr_iterate(r)
    \/ \E r \in Ranks : kfr_all_reduce(r)
    \/ \E r \in Ranks : ker_enter(r)
    \/ \E r \in Ranks : ker_power(r)
    \/ \E r \in Ranks : ker_sort(r)
    \/ \E r \in Ranks : ker_gather(r)

SpecRanks == InitRanks /\ [][NextRanks]_vars

\* a rank that can take a step takes it
FairSpecRanks == SpecRanks /\ WF_vars(NextRanks)

\* ======================================= every entry point, one call of one
InitAll == Init \/ InitCalls \/ InitRanks
NextAll == Next \/ NextCalls \/ NextRanks
SpecAll == InitAll /\ [][NextAll]_vars

\* ================================================================ claims
N1 == inp.n1
N2 == IF inp.sym THEN inp.n1 ELSE inp.n2
Entered(r) == local_indices[r] # <<>>
Returned(m, r) == ret[m][r].kind = "tensor"
PairSet == {Indices[k] : k \in 1..Len(Indices)}

\* a tensor whose two leading dimensions are the two sample counts
FullShape(t) == Len(t) = N1 /\ \A p \in 1..Len(t) : Len(t[p]) = N2

\* C1: in _parallel the list of block index pairs (the pairs i <= j of one
\* dataset, every pair of two) is cut in its order into P contiguous shards:
\* the shards of ranks 0..P-1, one after the other, are the list itself, so
\* every pair is in exactly one shard, and two shards differ in size by at
\* most one.
C1_ShardsPartitionIndices ==
    (mode \in GatherTypes /\ \A r \in Ranks : Entered(r)) =>
        /\ Concat([k \in 1..inp.P |-> local_indices[k - 1]]) = Indices
        /\ Cardinality(PairSet) = Len(Indices)
        /\ PairSet = {ij \in (0..(n_batches1 - 1)) \X (0..(n_batches2 - 1)) :
                         inp.sym => ij[1] <= ij[2]}
        /\ \A r, q \in Ranks :
               Len(local_indices[r]) - Len(local_indices[q]) \in {-1, 0, 1}

C1_Witness ==
    /\ mode = MASTER
    /\ inp.sym
    /\ inp.P = 3
    /\ \A r \in Ranks : Entered(r)
    /\ Len(local_indices[0]) > Len(local_indices[2])

\* C2: under 'master', a rank that has returned from _parallel has made
\* exactly one collective call, a gather to rank 0; rank 0 returned the full
\* kernel matrix (one row per sample of dataset 1, one column per sample of
\* dataset 2, no entry a padding zero) and every other rank returned None.
IsKernelEntry(cell) ==
    IF inp.ndim = 4
    THEN \A c, d \in 1..inp.C : cell[c][d] > 0
    ELSE \A c \in 1..inp.C : cell[c] > 0

C2_MasterReturnsFullKernel ==
    \A r \in Ranks :
        (mode = MASTER /\ pc[r] = "done") =>
            /\ calls[r] = <<Gather(0)>>
            /\ IF r = 0
               THEN /\ Returned(MASTER, 0)
                    /\ FullShape(ret[MASTER][0].t)
                    /\ \A p \in 1..N1 : \A q \in 1..N2 :
                           IsKernelEntry(ret[MASTER][0].t[p][q])
               ELSE ret[MASTER][r] = None

\* the part of C2 that is about the ranks' roles alone
C2_MasterRoles ==
    \A r \in Ranks :
        (mode = MASTER /\ pc[r] = "done") =>
            /\ calls[r] = <<Gather(0)>>
            /\ Returned(MASTER, r) <=> r = 0
            /\ r # 0 => ret[MASTER][r] = None

\* C3: under 'split' with 3-D blocks the classes are cut by position into P
\* contiguous shards; the rank that owns shard r returns one slice per class
\* of the shard, the k-th slice being the full kernel of the shard's k-th
\* class, and a rank returns None exactly when its shard is empty.
ClassKernelEntry(p, q, c) == KVal(Dataset1[p], c, Dataset2[q], c)

C3_SplitOwnsClassShard ==
    \A r \in Ranks :
        (mode = SPLIT /\ pc[r] = "done") =>
            LET shard == classes_split[r + 1]
            IN  /\ Concat(classes_split) = Range(0, inp.C)
                /\ (ret[SPLIT][r] = None) <=> (shard = <<>>)
                /\ shard # <<>> =>
                       /\ Returned(SPLIT, r)
                       /\ Len(ret[SPLIT][r].t) = Len(shard)
                       /\ \A k \in 1..Len(shard) :
                              /\ FullShape(ret[SPLIT][r].t[k])
                              /\ \A p \in 1..N1 : \A q \in 1..N2 :
                                     ret[SPLIT][r].t[k][p][q] =
                                         ClassKernelEntry(p, q, shard[k] + 1)

\* the part of C3 that is about which classes a rank owns
C3_SplitOwnership ==
    \A r \in Ranks :
        (mode = SPLIT /\ pc[r] = "done") =>
            LET shard == classes_split[r + 1]
            IN  /\ Concat(classes_split) = Range(0, inp.C)
                /\ (ret[SPLIT][r] = None) <=> (shard = <<>>)
                /\ shard # <<>> => Returned(SPLIT, r) /\ Len(ret[SPLIT][r].t) = Len(shard)

\* C4: for the same world size and inputs, every rank's kernel under 'all'
\* is rank 0's kernel under 'master', and the k-th slice a rank returns
\* under 'split' is that kernel restricted to the k-th class of its shard.
ClassOf(kernel, c) ==
    [p \in 1..Len(kernel) |-> [q \in 1..Len(kernel[p]) |-> kernel[p][q][c + 1]]]

C4_GatherStrategiesAgree ==
    \A r \in Ranks :
        /\ (Returned(ALL, r) /\ Returned(MASTER, 0)) =>
               ret[ALL][r].t = ret[MASTER][0].t
        /\ (Returned(SPLIT, r) /\ Returned(MASTER, 0)) =>
               \A k \in 1..Len(ret[SPLIT][r].t) :
                   ret[SPLIT][r].t[k] =
                       ClassOf(ret[MASTER][0].t, classes_split[r + 1][k])

C4_Witness ==
    /\ inp.P >= 2
    /\ inp.C >= 2
    /\ n_batches1 >= 2
    /\ Returned(MASTER, 0)
    /\ \A r \in Ranks : Returned(ALL, r) /\ Returned(SPLIT, r)

\* C5: the kernel of one dataset with itself (x2 absent) is symmetric under
\* the exchange of the two samples together with the two classes:
\* K[i,j,c,d] = K[j,i,d,c], and K[i,j,c] = K[j,i,c] for 3-D kernels, on the
\* serial path and on the distributed path.
SymmetricKernel(K) ==
    /\ \A i \in 1..Len(K) : Len(K[i]) = Len(K)
    /\ \A i, j \in 1..Len(K) :
           IF inp.ndim = 4
           THEN \A c, d \in 1..inp.C : K[i][j][c][d] = K[j][i][d][c]
           ELSE \A c \in 1..inp.C : K[i][j][c] = K[j][i][c]

C5_SymmetricRequestSymmetricKernel ==
    inp.sym =>
        \A r \in Ranks :
            /\ Returned(SERIAL, r) => SymmetricKernel(ret[SERIAL][r].t)
            /\ Returned(MASTER, r) => SymmetricKernel(ret[MASTER][r].t)
            /\ Returned(ALL, r) => SymmetricKernel(ret[ALL][r].t)

C5_Witness ==
    /\ inp.sym
    /\ inp.ndim = 4
    /\ inp.C >= 2
    /\ inp.bs >= 2
    /\ n_batches1 >= 2
    /\ inp.P >= 2
    /\ Returned(SERIAL, 0)
    /\ Returned(MASTER, 0)
    /\ \A r \in Ranks : Returned(ALL, r)

\* C6: the kernel batch returns for a batch size that divides the dataset,
\* on the serial path and on the distributed paths that return the whole
\* kernel, is the kernel it returns for batch_size = n, one block: the
\* decomposition into blocks does not show in the result.
C6_BlockStructureInvariance ==
    \A m \in {SERIAL, MASTER, ALL} : \A r \in Ranks :
        (Returned(m, r) /\ Divisible) =>
            ret[m][r].t = serial_kernel(IF N1 >= N2 THEN N1 ELSE N2).t

C6_Witness ==
    /\ Returned(SERIAL, 0)
    /\ Divisible
    /\ inp.sym
    /\ inp.bs = 2
    /\ inp.n1 = 4
    /\ inp.ndim = 4
    /\ inp.C = 2

C6_WitnessTwoDatasets ==
    /\ Returned(SERIAL, 0)
    /\ Divisible
    /\ ~inp.sym
    /\ inp.bs = 2
    /\ inp.n1 = 4
    /\ inp.n2 = 2

\* C7: with fewer block index pairs than ranks, a rank leaves _parallel by
\* the assertion of line 153 having computed no block and entered no
\* collective call: no rank is ever waiting in one.
C7_TooFewBlocksRaiseFirst ==
    (mode \in GatherTypes /\ ~LoaderError /\ Len(Indices) < inp.P) =>
        \A r \in Ranks :
            /\ pc[r] \in {"start", "raised"}
            /\ kcalls[r] = <<>>
            /\ calls[r] = <<>>

C7_Witness ==
    /\ mode = ALL
    /\ ~LoaderError
    /\ Len(Indices) < inp.P
    /\ \A r \in Ranks : pc[r] = "raised"

\* ---------------------------------------------------------------- C8
InvalidOption ==
    \/ fn \in {LNK, LNKI} /\ arg.likelihood \notin Likelihoods
    \/ fn = KE /\ arg.gather_type \notin {MASTER, ALL}

\* C8: a call given an unknown likelihood (linear_network_kernel,
\* linear_network_kernel_indep) or an unknown gather strategy
\* (kernel_eigenvalues) has, at every point of the call, performed no
\* forward pass, no backward pass and no collective, and it ends by raising.
C8_InvalidOptionsRejectedFirst ==
    InvalidOption =>
        /\ work = NoWork
        /\ at = "done" => out.kind = "raised"

\* C8, batch/_parallel: a rank given an unknown gather strategy raises
\* before it has computed a block or entered a collective.
C8_ParallelGatherTypeRejectedFirst ==
    mode = BOGUS =>
        \A r \in Ranks : /\ pc[r] \in {"start", "raised"}
                         /\ kcalls[r] = <<>>
                         /\ calls[r] = <<>>

\* C8, batch/_parallel: a rank given 4-D blocks with gather strategy
\* 'split' enters no collective; its blocks have been computed by then.
C8_SplitShapeRejectedBeforeCollectives ==
    (mode = SPLIT /\ inp.ndim = 4) =>
        \A r \in Ranks : pc[r] \in {"start", "raised"} /\ calls[r] = <<>>

C8_SplitShapeRejectedAfterBlocks ==
    /\ mode = SPLIT
    /\ inp.ndim = 4
    /\ \E r \in Ranks : pc[r] = "raised" /\ kcalls[r] # <<>> /\ local_blocks[r] # NoTensor

\* ---------------------------------------------------------------- C9
GlobalSamples == arg.n * (IF arg.is_distributed THEN arg.world_size ELSE 1)
Budget == IF arg.max_iters_is_None THEN GlobalSamples * arg.c ELSE arg.max_iters
BelowTolAt(k) == frame.err_lt_tol[k]

StoppedRight ==
    /\ frame.max_iters = Budget
    /\ frame.i = Len(frame.err_lt_tol)
    /\ frame.x = frame.i
    /\ frame.i <= Budget
    /\ \A k \in 1..(frame.i - 1) : ~BelowTolAt(k)
    /\ at = "iterate" => (frame.i = 0 \/ ~BelowTolAt(frame.i))
    /\ at = "converged" => (frame.i >= 1 /\ BelowTolAt(frame.i))
    /\ at = "maxed-out" => (frame.i = Budget /\ \A k \in 1..frame.i : ~BelowTolAt(k))
    /\ at = "done" =>
          /\ out.kind = "returned"
          /\ out.value.grad_tensors = frame.i
          /\ out.value.state = "converged" => (frame.i >= 1 /\ BelowTolAt(frame.i))
          /\ out.value.state = "maxed-out" =>
                (frame.i = Budget /\ \A k \in 1..frame.i : ~BelowTolAt(k))

C9_WitnessConverged ==
    /\ fn = KF
    /\ at = "done"
    /\ out.value.state = "converged"
    /\ frame.i > 1
    /\ frame.i < frame.max_iters

\* --------------------------------------------------------------- C10
ValidEigenCall ==
    /\ fn = KE
    /\ arg.top_n >= 1
    /\ arg.max_iters >= 1
    /\ to_gather => arg.gather_type \in {MASTER, ALL}

SortedPairs(eigvals, eigvecs) ==
    /\ Len(eigvals) = arg.top_n
    /\ Len(eigvecs) = arg.top_n
    /\ \A k \in 1..(Len(eigvals) - 1) : eigvals[k] >= eigvals[k + 1]
    /\ \A k \in 1..Len(eigvals) : eigvecs[k].eigval = eigvals[k]
    /\ \A i \in 0..(arg.top_n - 1) : \E k \in 1..Len(eigvecs) : eigvecs[k].i = i

\* C10: a call of kernel_eigenvalues with valid arguments returns, and what
\* it returns is top_n eigenvalues in descending order, each at the place
\* of the eigenvector that was appended with it, whether a power iteration
\* ended on the tolerance test or on the iteration budget.
C10_ReturnsSortedEigenpairs ==
    (ValidEigenCall /\ at = "done") =>
        /\ out.kind = "returned"
        /\ SortedPairs(frame.eigvals, frame.eigvecs)
        /\ out.value.eigvals = frame.eigvals
        /\ arg.eigenvectors => out.value.eigvecs = frame.eigvecs

\* C10, without ties: when the eigenvalue estimates differ pairwise the
\* call returns them sorted and paired.
C10_DistinctEigenvaluesSorted ==
    (/\ ValidEigenCall
     /\ at \in {"sort", "sorted", "done"}
     /\ \A a, b \in 1..Len(frame.eigvals) :
            a # b => frame.eigvals[a] # frame.eigvals[b]) =>
        /\ at = "done" => out.kind = "returned"
        /\ at \in {"sorted", "done"} => SortedPairs(frame.eigvals, frame.eigvecs)

C10_WitnessSortedBothEndings ==
    /\ ValidEigenCall
    /\ at = "done"
    /\ out.kind = "returned"
    /\ arg.eigenvectors
    /\ Len(out.value.eigvecs) > 1
    /\ out.value.eigvecs[1].i > out.value.eigvecs[2].i
    /\ \E k, l \in 1..Len(out.value.eigvecs) :
          /\ out.value.eigvecs[k].ended_on = "tolerance"
          /\ out.value.eigvecs[l].ended_on = "budget"

\* --------------------------------------------------------------- C11
\* the tensor of line 814 is vec / sqrt(sum(vec^2)), of norm 1; the tensor
\* of line 842 is the kernel applied to it, whose norm is whatever the
\* kernel makes it
UnitNorm(v) == v.tensor = "vec"

\* lines 804-808 subtract sum(vec * v) * v: the component of vec along v is
\* removed when v has norm 1, and only from the tensor that line 814 then
\* normalises
OrthogonalToEarlier(v, eigvecs) ==
    /\ v.tensor = "vec"
    /\ \A k \in 1..Len(eigvecs) : eigvecs[k].i < v.i => UnitNorm(eigvecs[k])

\* C11: every eigenvector in the accumulator of kernel_eigenvalues has unit
\* norm and is orthogonal to the eigenvectors accepted before it, whether
\* its power iteration ended on the tolerance test or on the budget.
C11_AcceptedEigenvectorsOrthonormal ==
    (ValidEigenCall /\ arg.eigenvectors /\ at = "done" /\ out.kind = "returned") =>
        \A k \in 1..Len(out.value.eigvecs) :
            /\ UnitNorm(out.value.eigvecs[k])
            /\ OrthogonalToEarlier(out.value.eigvecs[k], out.value.eigvecs)

\* C11, early stops only: an eigenvector accepted on the tolerance test
\* after eigenvectors accepted on the tolerance test has unit norm and is
\* orthogonal to them.
C11_ToleranceEndingsOrthonormal ==
    (ValidEigenCall /\ at # "call") =>
        \A k \in 1..Len(frame.eigvecs) :
            (\A l \in 1..Len(frame.eigvecs) :
                frame.eigvecs[l].i <= frame.eigvecs[k].i
                    => frame.eigvecs[l].ended_on = "tolerance")
            => /\ UnitNorm(frame.eigvecs[k])
               /\ OrthogonalToEarlier(frame.eigvecs[k], frame.eigvecs)

\* --------------------------------------------------------------- C13
AtEta(eta_1, eta_2) ==
    /\ fn = HHR
    /\ arg.eta_1 = eta_1
    /\ arg.eta_2 = eta_2
    /\ at = "done"

\* C13, as the code computes it: for eta = (1.0, -2.0) the Hessian is
\* H00 = 0.25, H01 = H10 = 0.125 and H11 = 0.5/eta2^2 - 0.5*eta1^2/eta2^3
\* = 0.1875.
C13_HessianAtOneMinusTwo ==
    AtEta(1, -2) =>
        out.value = <<<<Rat(1, 4), Rat(1, 8)>>, <<Rat(1, 8), Rat(3, 16)>>>>

\* C13, as stated: for eta = (1.0, -2.0) the Hessian is H00 = 0.25,
\* H01 = H10 = -0.125 and H11 = 0.5/eta2^2 - 0.5*eta1^2/eta2^3.
C13_HessianAsStated ==
    AtEta(1, -2) =>
        out.value = <<<<Rat(1, 4), Rat(-1, 8)>>, <<Rat(-1, 8), Rat(3, 16)>>>>

C13_Witness ==
    /\ AtEta(1, -2)
    /\ out.kind = "returned"
    /\ out.value[1][2] = out.value[2][1]

\* --------------------------------------------------------------- C19
Batches1 == DataLoader(Dataset1, inp.bs)
Batches2 == DataLoader(Dataset2, inp.bs)

PairsAligned(r) ==
    LET shard == indices_split[r + 1]
        ps == local_pairs(r)
    IN  /\ Len(ps) = Len(shard)
        /\ \A k \in 1..Len(shard) :
               /\ ps[k].ij = shard[k]
               /\ ps[k].batch1 = Batches1[shard[k][1] + 1]
               /\ ps[k].batch2 = Batches2[shard[k][2] + 1]

\* C19: on every rank that has computed its blocks, the k-th pair of
\* batches drawn from the two subset loaders is batch i_k of dataset 1 and
\* batch j_k of dataset 2, (i_k, j_k) being the k-th pair of the rank's
\* shard, whatever the dataset lengths (a last batch may be short).
C19_SubsetLoadersAligned ==
    \A r \in Ranks : (mode \in GatherTypes /\ Entered(r)) => PairsAligned(r)

\* C19, datasets the batch size divides: the pairs are aligned.
C19_DivisibleLoadersAligned ==
    \A r \in Ranks :
        (mode \in GatherTypes /\ Entered(r) /\ Divisible) => PairsAligned(r)

\* --------------------------------------------------------------- C15
InCollective(r) == mode \in GatherTypes /\ pc[r] \in {"wait", "done"} /\ calls[r] # <<>>

ZeroBlock(b) == \A p \in 1..Len(b) : \A q \in 1..Len(b[p]) : b[p][q] = ZeroCell

\* C15: a rank that has entered a collective of _parallel holds a stack
\* of exactly as many blocks as shard 0 has pairs, the blocks after its
\* own shard's being zero, and in every collective call (a per-class slice
\* under 'split' included) the tensor it passes has the shape of the tensor
\* every other rank passes in that call.
C15_PaddedStacksSameShape ==
    \A r \in Ranks :
        InCollective(r) =>
            /\ Len(local_blocks[r]) = max_n_blocks
            /\ \A k \in (Len(indices_split[r + 1]) + 1)..Len(local_blocks[r]) :
                   ZeroBlock(local_blocks[r][k])
            /\ \A q \in Ranks : \A k \in 1..Min(Len(calls[r]), Len(calls[q])) :
                   TensorShape(sent[q][k]) = TensorShape(sent[r][k])

\* C15, datasets the batch size divides: stacks are padded to the size of
\* shard 0 and every collective sees one shape.
C15_DivisiblePaddedStacksSameShape ==
    Divisible => C15_PaddedStacksSameShape

\* --------------------------------------------------------------- C16
Count(seq, x) == Cardinality({k \in 1..Len(seq) : seq[k] = x})
BatchPairs == (0..(n_batches1 - 1)) \X (0..(n_batches2 - 1))

\* the blocks _serial has filled when it reaches (i, j), rows in order
FilledBefore(i, j) == {ab \in BatchPairs : ab[1] < i \/ (ab[1] = i /\ ab[2] < j)}

SerialInvocations ==
    (mode = SERIAL /\ pc[0] = "done") =>
        \A ij \in BatchPairs :
            /\ Count(kcalls[0], ij) = (IF inp.sym /\ ij[1] > ij[2] THEN 0 ELSE 1)
            /\ (inp.sym /\ ij[1] > ij[2]) =>
                   /\ <<ij[2], ij[1]>> \in FilledBefore(ij[1], ij[2])
                   /\ Count(kcalls[0], <<ij[2], ij[1]>>) = 1
        
SerialMirrors ==
    (mode = SERIAL /\ Returned(SERIAL, 0) /\ inp.sym) =>
        SymmetricKernel(ret[SERIAL][0].t)

ParallelInvocations ==
    (mode \in GatherTypes /\ \A r \in Ranks : Entered(r)) =>
        \A ij \in BatchPairs :
            IF ij \in PairSet
            THEN \E r \in Ranks :
                     /\ Count(kcalls[r], ij) = 1
                     /\ \A q \in Ranks \ {r} : Count(kcalls[q], ij) = 0
            ELSE \A r \in Ranks : Count(kcalls[r], ij) = 0

\* C16: with one dataset of B batches _serial invokes kernel_fn exactly
\* once for each (i, j) with i <= j and never for i > j, a block below the
\* diagonal being the transpose (class axes too for 4-D blocks) of the
\* block (j, i) computed before it; on the distributed path every pair
\* i <= j is computed by exactly one rank; with two datasets kernel_fn is
\* invoked once for each of the B1 * B2 pairs.
C16_KernelFnOncePerPair ==
    /\ SerialInvocations
    /\ SerialMirrors
    /\ ParallelInvocations

\* C16, _serial alone
C16_SerialOncePerPair == SerialInvocations /\ SerialMirrors

\* C16, the distributed path on datasets the batch size divides
C16_DivisibleParallelOncePerPair == Divisible => ParallelInvocations

\* --------------------------------------------------------------- C20
\* C20: whenever the distributed path returns the full kernel (rank 0
\* under 'master', every rank under 'all'), it is the kernel _serial
\* returns for the same inputs: one row per sample of dataset 1, one column
\* per sample of dataset 2, every entry that of the computed block or of its
\* mirror, none a padding zero.
C20_DistributedEqualsSerial ==
    \A m \in {MASTER, ALL} : \A r \in Ranks :
        Returned(m, r) =>
            /\ Returned(SERIAL, 0)
            /\ ret[m][r].t = ret[SERIAL][0].t
            /\ FullShape(ret[m][r].t)
            /\ \A p \in 1..N1 : \A q \in 1..N2 : IsKernelEntry(ret[m][r].t[p][q])

\* C20, datasets the batch size divides
C20_DivisibleDistributedEqualsSerial ==
    Divisible => C20_DistributedEqualsSerial

\* --------------------------------------------------------------- C14
\* what the call has attached to the model and its modules
HasKernel == frame # NoFrame /\ frame.kernel
HasScale == fn \in {LNKI, ENK} /\ frame # NoFrame /\ frame.scale
HasGramPrecond == fn = ECN /\ frame # NoFrame /\ frame.gram_precond

KernelBuilders == {LNKI, ENK, ECN}

\* C14: when linear_network_kernel_indep, empirical_network_kernel or
\* _empirical_class_wise_ntk has ended, by returning or by raising, the
\* model has no 'kernel' attribute and no module has a 'weight_scale',
\* 'bias_scale' or 'gram_precond' attribute.
C14_NoTransientStateOutlivesCall ==
    (fn \in KernelBuilders /\ at = "done") =>
        /\ ~HasKernel
        /\ ~HasScale
        /\ ~HasGramPrecond

\* C14, calls that return: nothing stays attached.
C14_ReturnLeavesNothing ==
    (fn \in KernelBuilders /\ at = "done" /\ out.kind = "returned") =>
        /\ ~HasKernel
        /\ ~HasScale
        /\ ~HasGramPrecond

\* --------------------------------------------------------------- C12
\* the curvature-corrected gradients of class k for all P * local_n
\* samples, in rank order, and what the solve of class k makes of them
ClassRow(k) == [g \in 1..(arg.world_size * arg.local_n) |-> Grad(g - 1, k)]
SolvedAt(k, g) == Solved(k, ClassRow(k), g)

SolvedOf(r) ==
    [k \in 1..Len(peng_classes_split[r + 1]) |->
        [g \in 1..(arg.world_size * arg.local_n) |->
            SolvedAt(peng_classes_split[r + 1][k], g - 1)]]

SubstituteOf(r) ==
    [s \in 1..arg.local_n |->
        [k \in 1..arg.c |-> SolvedAt(k - 1, r * arg.local_n + s - 1)]]

PhaseOf(r) == IF frame[r] = NoFrame THEN "start" ELSE frame[r].phase

\* C12: in parallel_efficient_natural_gradient_cross_entropy, after the
\* data-to-class exchange the rank that owns class k has solved class k
\* against the gradients of class k of all P * local_n samples in rank
\* order; after the class-to-data exchange rank r holds v[s, k] = the solved
\* value of class k at sample r * local_n + s, for every class in class
\* order, no padding row among them; and the gradient every rank ends with
\* is the sum over the ranks of their back-propagated v.
C12_AllToAllRoundTrip ==
    fn = PENG =>
        \A r \in Ranks :
            /\ (PhaseOf(r) \in {"to_data", "reduce", "returned"} /\ has_local_classes(r)) =>
                   frame[r].solved = SolvedOf(r)
            /\ PhaseOf(r) \in {"reduce", "returned"} =>
                   frame[r].v = SubstituteOf(r)
            /\ PhaseOf(r) = "returned" =>
                   frame[r].grad.passes =
                       [q \in 1..arg.world_size |->
                           [rank |-> q - 1, v |-> SubstituteOf(q - 1)]]

C12_Witness ==
    /\ fn = PENG
    /\ arg.world_size = 2
    /\ arg.c = 3
    /\ arg.local_n = 2
    /\ \A r \in Ranks : PhaseOf(r) = "returned"

C12_WitnessEmptyShard ==
    /\ fn = PENG
    /\ arg.world_size = 3
    /\ arg.c = 2
    /\ \A r \in Ranks : PhaseOf(r) = "returned"

\* --------------------------------------------------------------- C17
OneBackward(r, v) == [rank |-> r, v |-> v]

\* C17: when natural_gradient_cross_entropy,
\* efficient_natural_gradient_cross_entropy,
\* parallel_efficient_natural_gradient_cross_entropy or
\* kernel_free_cross_entropy returns, the gradient of the parameters is
\* that of exactly one backward pass of the substitute gradient (one per
\* rank, summed, in the distributed routines) whatever the parameters held
\* before: it was zeroed before that backward pass, and until then no step,
\* the iterations of the kernel-free loop included, has added to it.
C17_GradientIsOneBackward ==
    /\ (fn \in {NG, ENG} /\ at = "done" /\ out.kind = "returned") =>
           frame.grad = [stale |-> FALSE, passes |-> <<OneBackward(0, "v")>>]
    /\ (fn = KF /\ at \in {"iterate", "converged", "maxed-out"}) =>
           frame.grad = StaleGrad
    /\ (fn = KF /\ at = "done") =>
           frame.grad = [stale |-> FALSE, passes |-> <<OneBackward(0, frame.x)>>]
    /\ fn \in {PENG, KFR} =>
           \A r \in Ranks :
               /\ PhaseOf(r) \in {"init", "iterate", "to_class", "to_data"} =>
                      frame[r].grad = StaleGrad
               /\ PhaseOf(r) = "returned" =>
                      /\ ~frame[r].grad.stale
                      /\ Len(frame[r].grad.passes) = arg.world_size
                      /\ \A q \in Ranks : frame[r].grad.passes[q + 1].rank = q
                      /\ fn = KFR =>
                             \A q \in Ranks : frame[r].grad.passes[q + 1].v = frame[q].i

C17_Witness ==
    /\ fn = KF
    /\ at = "done"
    /\ arg.stale_grad
    /\ frame.i >= 2

C17_WitnessOnEveryRank ==
    /\ fn = KFR
    /\ arg.world_size >= 2
    /\ \A r \in Ranks : PhaseOf(r) = "returned" /\ frame[r].i >= 2

\* --------------------------------------------------------------- C18
PrefixCompatible(a, b) == \A k \in 1..Min(Len(a), Len(b)) : a[k] = b[k]
NoRankRaised == \A r \in Ranks : pc[r] # "raised"
EveryRankDone == \A r \in Ranks : pc[r] = "done"

C18_EveryRankEnds ==
    []<>(fn \in OnEveryRank => (EveryRankDone \/ ~NoRankRaised))

C18_WitnessEmptyClassShard ==
    /\ fn = PENG
    /\ arg.world_size > arg.c
    /\ EveryRankDone

C18_WitnessSplit ==
    /\ mode = SPLIT
    /\ inp.P > inp.C
    /\ EveryRankDone
    /\ \A r \in Ranks : Len(calls[r]) = inp.P

====
